---------------------------- MODULE Spec2Model ----------------------------
(***************************************************************************)
(* Model of the SmartAdServer bid adapter (package smartadserver), the     *)
(* adapter types (package adapter) and the Fastly Compute entry point      *)
(* (main.go).                                                              *)
(*                                                                         *)
(* Go values are modelled as follows.                                      *)
(*   - an optional JSON/YAML field or a nilable value v is <<>> (absent,   *)
(*     nil) or <<v>>;                                                      *)
(*   - a slice that the code distinguishes from nil is a record            *)
(*     [isNil, elems];                                                     *)
(*   - *openrtb2.Site is an address into heap (a sequence of Site          *)
(*     objects), NIL being the nil pointer, so that a shallow struct copy  *)
(*     shares the pointed-to Site;                                         *)
(*   - float64 bid floors are decimal strings ("0" is the zero value).     *)
(***************************************************************************)
EXTENDS Integers, Sequences, FiniteSets, TLC

VARIABLES
    pc,            \* position of the running code
    config,        \* raw configuration bytes handed to BuildBidder
    bidder,        \* <<>> or <<adapter>>: result of BuildBidder
    inbound,       \* the inbound HTTP request (method, path, body)
    request,       \* the caller's openrtb2.BidRequest struct
    heap,          \* Site objects, by address
    before,        \* request and heap as they were when MakeRequests was called
    httpRequests,  \* first result of MakeRequests
    errs,          \* second result of MakeRequests / MakeBids
    i,             \* index of the loop over httpRequests in the handler
    beresp,        \* <<>> or <<backend response>> of the current iteration
    w,             \* what the handler wrote to the fsthttp.ResponseWriter
    events,        \* adapter invocations and network sends, in order
    response,      \* the adapter.HttpResponse handed to MakeBids
    bidResponse    \* first result of MakeBids

vars == <<pc, config, bidder, inbound, request, heap, before, httpRequests,
          errs, i, beresp, w, events, response, bidResponse>>

---------------------------------------------------------------------------
(* Bounds of the model *)

MaxImps == 2
MaxSeats == 2
MaxBidsPerSeat == 2

---------------------------------------------------------------------------
(* Go helpers *)

NIL == 0

NilSlice == [isNil |-> TRUE, elems |-> <<>>]

Slice(s) == [isNil |-> FALSE, elems |-> s]

Opt(S) == {<<>>} \cup {<<v>> : v \in S}

SeqsUpTo(S, n) == UNION {[1..k -> S] : k \in 0..n}

---------------------------------------------------------------------------
(* openrtb2 values that the adapter reads or writes *)

DefaultFormat == [W |-> 728, H |-> 90]

\* *openrtb2.Banner: nil, or a Banner whose Format slice may be empty
Banners == {<<>>, <<[Format |-> <<>>]>>, <<[Format |-> <<[W |-> 300, H |-> 250]>>]>>}

CallerExt == [siteId |-> 0, networkId |-> 0, pageId |-> 0, formatId |-> 0,
              target |-> "caller", domain |-> ""]

Imps == [ID : {"1"}, Banner : Banners, BidFloor : {"0", "2.5"},
         BidFloorCur : {"", "EUR"}, Ext : {<<>>, <<CallerExt>>}]

\* the impressions drawn as inputs: floor and currency set together, ext with a floor
InputImps == {m \in Imps : /\ (m.BidFloor = "0") = (m.BidFloorCur = "")
                           /\ (m.Ext = <<>>) = (m.BidFloor = "0")}

Sites == [Domain : {"", "example.com"}, Page : {"", "https://example.com/p"}]

\* json.RawMessage request.Ext: empty, valid JSON, or bytes that are not JSON
RequestExts == {"", "{}", "{bad"}

ValidRaw(raw) == raw # "{bad"

BidRequests(exts) ==
    [Imp : SeqsUpTo(InputImps, MaxImps), Site : {NIL, 1},
     Test : {0}, TMax : {0, 250}, AT : {0}, Ext : exts]

---------------------------------------------------------------------------
(* encoding/json over the openrtb2 struct tags: every field below except  *)
(* id and imp is tagged omitempty, so a zero value is left out of the     *)
(* document and an absent field decodes to the zero value.                *)

OmitEmpty(v, zero) == IF v = zero THEN <<>> ELSE <<v>>

OrZero(f, zero) == IF f = <<>> THEN zero ELSE f[1]

MarshalBanner(b) == [format |-> OmitEmpty(b.Format, <<>>)]

MarshalImp(m) ==
    [id          |-> m.ID,
     banner      |-> IF m.Banner = <<>> THEN <<>> ELSE <<MarshalBanner(m.Banner[1])>>,
     bidfloor    |-> OmitEmpty(m.BidFloor, "0"),
     bidfloorcur |-> OmitEmpty(m.BidFloorCur, ""),
     ext         |-> m.Ext]

MarshalSite(s) == [domain |-> OmitEmpty(s.Domain, ""), page |-> OmitEmpty(s.Page, "")]

\* json.Marshal(&enrichedRequest): fails on a RawMessage that is not JSON
MarshalBidRequest(r, h) ==
    [ok  |-> ValidRaw(r.Ext),
     doc |-> [imp  |-> [k \in 1..Len(r.Imp) |-> MarshalImp(r.Imp[k])],
              site |-> IF r.Site = NIL THEN <<>> ELSE <<MarshalSite(h[r.Site])>>,
              test |-> OmitEmpty(r.Test, 0),
              tmax |-> OmitEmpty(r.TMax, 0),
              at   |-> OmitEmpty(r.AT, 0),
              ext  |-> OmitEmpty(r.Ext, "")]]

UnmarshalBanner(d) == [Format |-> OrZero(d.format, <<>>)]

UnmarshalImp(d) ==
    [ID          |-> d.id,
     Banner      |-> IF d.banner = <<>> THEN <<>> ELSE <<UnmarshalBanner(d.banner[1])>>,
     BidFloor    |-> OrZero(d.bidfloor, "0"),
     BidFloorCur |-> OrZero(d.bidfloorcur, ""),
     Ext         |-> d.ext]

UnmarshalSite(d) == [Domain |-> OrZero(d.domain, ""), Page |-> OrZero(d.page, "")]

\* json.Unmarshal(body, &bidRequest): the struct, and the Site it allocates
UnmarshalBidRequest(d) ==
    [request |-> [Imp  |-> [k \in 1..Len(d.imp) |-> UnmarshalImp(d.imp[k])],
                  Site |-> IF d.site = <<>> THEN NIL ELSE 1,
                  Test |-> OrZero(d.test, 0),
                  TMax |-> OrZero(d.tmax, 0),
                  AT   |-> OrZero(d.at, 0),
                  Ext  |-> OrZero(d.ext, "")],
     heap    |-> IF d.site = <<>> THEN <<>> ELSE <<UnmarshalSite(d.site[1])>>]

---------------------------------------------------------------------------
(* package smartadserver *)

\* values of the endpoint key; "%zz" is not a URL
Endpoints == {"https://prebid.smartadserver.example/api/bid", "%zz"}

\* an error value: its fixed text, and the status code and body formatted into it
Err(msg, code, body) == [msg |-> msg, code |-> code, body |-> body]

NoImpressionsError == Err("no impressions in bid request", <<>>, <<>>)

MarshalError == Err("json: error calling MarshalJSON for type json.RawMessage", <<>>, <<>>)

Headers == [ContentType |-> "application/json;charset=utf-8",
            Accept |-> "application/json",
            XOpenrtbVersion |-> "2.5"]

\* the map impExt, marshalled (a map of ints and strings always marshals)
ImpExt(a, domain) ==
    [siteId    |-> a.defaultConfig.SiteID,
     networkId |-> a.platformID,
     pageId    |-> a.defaultConfig.PageID,
     formatId  |-> a.defaultConfig.FormatID,
     target    |-> "testing=prebid",
     domain    |-> domain]

\* imp.Banner after the nil check
EnsureBanner(banner) ==
    IF banner = <<>> THEN <<[Format |-> <<DefaultFormat>>]>> ELSE banner

Panicked(h) ==
    [panicked |-> TRUE, requests |-> NilSlice, errs |-> NilSlice, heap |-> h]

Returned(reqs, es, h) ==
    [panicked |-> FALSE, requests |-> reqs, errs |-> es, heap |-> h]

\* MakeRequests(request) on adapter a with the Site objects h: what it returns (or
\* that it panicked) and the Site objects afterwards
MakeRequests(a, h, req) ==
    IF Len(req.Imp) = 0
    THEN Returned(NilSlice, Slice(<<NoImpressionsError>>), h)
    ELSE IF req.Site = NIL
    THEN Panicked(h)      \* request.Site.Domain dereferences a nil *Site
    ELSE
    LET imp0 == req.Imp[1]
        imp  == [imp0 EXCEPT !.Ext = <<ImpExt(a, h[req.Site].Domain)>>,
                             !.Banner = EnsureBanner(imp0.Banner),
                             !.BidFloor = "0.01",
                             !.BidFloorCur = "USD"]
        \* enrichedRequest := *request copies the Site pointer, not the Site
        copy == [req EXCEPT !.Imp = <<imp>>, !.Test = 1, !.TMax = 1000, !.AT = 1]
        h1   == IF copy.Site = NIL THEN Append(h, [Domain |-> "", Page |-> ""]) ELSE h
        enrichedRequest == IF copy.Site = NIL THEN [copy EXCEPT !.Site = Len(h1)] ELSE copy
        h2   == IF /\ h1[enrichedRequest.Site].Page = ""
                   /\ req.Site # NIL
                   /\ h1[req.Site].Domain # ""
                THEN [h1 EXCEPT ![enrichedRequest.Site].Page = "https://" \o h1[req.Site].Domain]
                ELSE h1
        reqBody == MarshalBidRequest(enrichedRequest, h2)
    IN  IF ~reqBody.ok
        THEN Returned(NilSlice, Slice(<<MarshalError>>), h2)
        ELSE Returned(Slice(<<[Method |-> "POST", Uri |-> a.endpoint,
                               Body |-> reqBody.doc, Headers |-> Headers]>>),
                      NilSlice, h2)

---------------------------------------------------------------------------
(* MakeRequests applied to every BidRequest of the bounded input set *)

TestAdapter == [endpoint |-> "https://prebid.smartadserver.example/api/bid",
                platformID |-> 44,
                defaultConfig |-> [SiteID |-> 11, PageID |-> 22, FormatID |-> 33,
                                   PlatformID |-> 44]]

Idle ==
    /\ config = <<>>
    /\ inbound = <<>>
    /\ i = 0
    /\ beresp = <<>>
    /\ w = <<>>
    /\ events = <<>>

InitRequests ==
    /\ Idle
    /\ pc = "call"
    /\ bidder = <<TestAdapter>>
    /\ request \in BidRequests(RequestExts)
    /\ heap \in IF request.Site = NIL THEN {<<>>} ELSE {<<s>> : s \in Sites}
    /\ before = <<>>
    /\ httpRequests = NilSlice
    /\ errs = NilSlice
    /\ response = <<>>
    /\ bidResponse = <<>>

CallMakeRequests ==
    /\ pc = "call"
    /\ LET r == MakeRequests(bidder[1], heap, request)
       IN  /\ pc' = IF r.panicked THEN "panicked" ELSE "returned"
           /\ httpRequests' = r.requests
           /\ errs' = r.errs
           /\ heap' = r.heap
    /\ before' = <<[request |-> request, heap |-> heap]>>
    /\ UNCHANGED <<config, bidder, inbound, request, i, beresp, w, events,
                   response, bidResponse>>

NextRequests == CallMakeRequests

SpecRequests == InitRequests /\ [][NextRequests]_vars

---------------------------------------------------------------------------
(* MakeBids *)

StatusNoContent == 204
StatusBadRequest == 400
StatusNotFound == 404
StatusOK == 200

BidDocs == [id : {"b1", "b2"}]

SeatBidDocs == [bid : SeqsUpTo(BidDocs, MaxBidsPerSeat)]

\* a response body: <<>> when the bytes are not JSON, else the decoded document
BidResponseDocs == [seatbid : Opt(SeqsUpTo(SeatBidDocs, MaxSeats))]

Bodies == Opt(BidResponseDocs)

StatusCodes == {200, 204, 302, 400, 404, 500}

HttpResponses == [StatusCode : StatusCodes, Body : Bodies]

UnmarshalError == Err("invalid character", <<>>, <<>>)

\* json.Unmarshal(response.Body, &bidResp)
UnmarshalBidResponse(body) ==
    IF body = <<>>
    THEN [ok |-> FALSE, bidResp |-> [SeatBid |-> <<>>]]
    ELSE LET seats == OrZero(body[1].seatbid, <<>>)
         IN  [ok |-> TRUE,
              bidResp |-> [SeatBid |-> [s \in 1..Len(seats) |-> [Bid |-> seats[s].bid]]]]

\* as TypedBidsOfSeat, had the loop taken the address of one shared variable
TypedBidsOfSeat_SharedPointer(seatBid, s) ==
    [k \in 1..Len(seatBid[s].Bid) |->
        [Bid |-> <<s, Len(seatBid[s].Bid)>>, BidType |-> "banner"]]

\* the TypedBids appended for seat s; Bid is the pointer &seatBid.Bid[k]
TypedBidsOfSeat(seatBid, s) ==
    [k \in 1..Len(seatBid[s].Bid) |-> [Bid |-> <<s, k>>, BidType |-> "banner"]]

RECURSIVE AppendSeats(_, _, _)
AppendSeats(bids, seatBid, s) ==
    IF s > Len(seatBid)
    THEN bids
    ELSE AppendSeats(bids \o TypedBidsOfSeat(seatBid, s), seatBid, s + 1)

BidsResult(resp, es) == [response |-> resp, errs |-> es]

\* as MakeBids, without the check for 404
MakeBids_NotFoundUnchecked(resp) ==
    IF resp.StatusCode = StatusNoContent
    THEN BidsResult(<<>>, NilSlice)
    ELSE IF resp.StatusCode = StatusBadRequest
    THEN BidsResult(<<>>, Slice(<<Err("Bad request: %s", <<>>, <<resp.Body>>)>>))
    ELSE IF resp.StatusCode # StatusOK
    THEN BidsResult(<<>>, Slice(<<Err("Unexpected status code: %d. Body: %s",
                                      <<resp.StatusCode>>, <<resp.Body>>)>>))
    ELSE LET u == UnmarshalBidResponse(resp.Body)
         IN  IF ~u.ok
             THEN BidsResult(<<>>, Slice(<<UnmarshalError>>))
             ELSE BidsResult(<<[Bids |-> Slice(AppendSeats(<<>>, u.bidResp.SeatBid, 1))]>>,
                             NilSlice)

\* MakeBids(request, response): (*BidderResponse or nil, []error)
MakeBids(resp) ==
    IF resp.StatusCode = StatusNoContent
    THEN BidsResult(<<>>, NilSlice)
    ELSE IF resp.StatusCode = StatusBadRequest
    THEN BidsResult(<<>>, Slice(<<Err("Bad request: %s", <<>>, <<resp.Body>>)>>))
    ELSE IF resp.StatusCode = StatusNotFound
    THEN BidsResult(<<>>, Slice(<<Err("404 Not Found: %s", <<>>, <<resp.Body>>)>>))
    ELSE IF resp.StatusCode # StatusOK
    THEN BidsResult(<<>>, Slice(<<Err("Unexpected status code: %d. Body: %s",
                                      <<resp.StatusCode>>, <<resp.Body>>)>>))
    ELSE LET u == UnmarshalBidResponse(resp.Body)
         IN  IF ~u.ok
             THEN BidsResult(<<>>, Slice(<<UnmarshalError>>))
             ELSE BidsResult(<<[Bids |-> Slice(AppendSeats(<<>>, u.bidResp.SeatBid, 1))]>>,
                             NilSlice)

InitBids ==
    /\ Idle
    /\ pc = "call"
    /\ bidder = <<TestAdapter>>
    /\ request = [Imp |-> <<>>, Site |-> NIL, Test |-> 0, TMax |-> 0, AT |-> 0, Ext |-> ""]
    /\ heap = <<>>
    /\ before = <<>>
    /\ httpRequests = NilSlice
    /\ errs = NilSlice
    /\ response \in {<<r>> : r \in HttpResponses}
    /\ bidResponse = <<>>

CallMakeBids ==
    /\ pc = "call"
    /\ LET r == MakeBids(response[1])
       IN  /\ bidResponse' = r.response
           /\ errs' = r.errs
    /\ pc' = "returned"
    /\ UNCHANGED <<config, bidder, inbound, request, heap, before, httpRequests,
                   i, beresp, w, events, response>>

NextBids == CallMakeBids

SpecBids == InitBids /\ [][NextBids]_vars

---------------------------------------------------------------------------
(* Builder.BuildBidder *)

\* pbs.yaml: <<>> when the bytes are not YAML, else the document; a missing
\* enabled key is <<>>
ConfigDocs == [enabled : Opt(BOOLEAN), endpoint : Endpoints, platform_id : {44},
               default_config : {[site_id |-> 11, page_id |-> 22, format_id |-> 33,
                                  platform_id |-> 44]}]

Configs == Opt(ConfigDocs)

\* yaml.Unmarshal(config, &pbsConfig): missing keys keep their zero value
UnmarshalConfig(doc) ==
    [Enabled    |-> OrZero(doc.enabled, FALSE),
     Endpoint   |-> doc.endpoint,
     PlatformID |-> doc.platform_id,
     DefaultConfig |-> [SiteID |-> doc.default_config.site_id,
                        PageID |-> doc.default_config.page_id,
                        FormatID |-> doc.default_config.format_id,
                        PlatformID |-> doc.default_config.platform_id]]

\* as BuildBidder, without the check of the enabled flag
BuildBidder_EnabledUnchecked(cfg) ==
    IF cfg = <<>>
    THEN [adapter |-> <<>>, err |-> <<Err("error parsing PBS config: %v", <<>>, <<>>)>>]
    ELSE LET pbsConfig == UnmarshalConfig(cfg[1])
         IN  [adapter |-> <<[endpoint |-> pbsConfig.Endpoint,
                             platformID |-> pbsConfig.PlatformID,
                             defaultConfig |-> pbsConfig.DefaultConfig]>>,
              err |-> <<>>]

\* BuildBidder(config): (adapter or nil, error or nil)
BuildBidder(cfg) ==
    IF cfg = <<>>
    THEN [adapter |-> <<>>, err |-> <<Err("error parsing PBS config: %v", <<>>, <<>>)>>]
    ELSE LET pbsConfig == UnmarshalConfig(cfg[1])
         IN  IF ~pbsConfig.Enabled
             THEN [adapter |-> <<>>,
                   err |-> <<Err("SmartAdServer adapter is not enabled in config", <<>>, <<>>)>>]
             ELSE [adapter |-> <<[endpoint |-> pbsConfig.Endpoint,
                                  platformID |-> pbsConfig.PlatformID,
                                  defaultConfig |-> pbsConfig.DefaultConfig]>>,
                   err |-> <<>>]

---------------------------------------------------------------------------
(* main.go: one Compute instance serving one inbound request *)

StatusInternalServerError == 500

AuctionPath == "/openrtb2/auction"

InboundImpDocs == {MarshalImp(m) : m \in {n \in InputImps : n.Banner # <<[Format |-> <<>>]>>}}

InboundSiteDocs == {<<>>, <<[domain |-> <<"example.com">>, page |-> <<>>]>>}

\* bid-request JSON bodies of inbound requests
InboundDocs == [imp : SeqsUpTo(InboundImpDocs, MaxImps), site : InboundSiteDocs,
                test : {<<>>}, tmax : {<<>>}, at : {<<>>}, ext : {<<>>}]

\* an inbound body: whether io.ReadAll succeeds, and <<>> (not JSON) or the document
InboundBodies == {[readable |-> FALSE, json |-> <<>>]} \cup
                 {[readable |-> TRUE, json |-> j] : j \in Opt(InboundDocs)}

InboundRequests == [Method : {"POST", "GET"}, Path : {AuctionPath, "/status"},
                    Body : InboundBodies]

\* what the exchange may answer
BackendResponses == [StatusCode : StatusCodes,
                     Body : {<<>>, <<[seatbid |-> <<>>]>>, <<[seatbid |-> << <<>> >>]>>}]

\* url.Parse inside fsthttp.NewRequest
ValidURL(uri) == uri # "%zz"

\* w.WriteHeader(status) with nothing else written
StatusOnly(status) == [status |-> status, contentType |-> "", body |-> <<>>]

Init ==
    /\ pc = "main"
    /\ config \in Configs
    /\ bidder = <<>>
    /\ inbound \in {<<r>> : r \in InboundRequests}
    /\ request = [Imp |-> <<>>, Site |-> NIL, Test |-> 0, TMax |-> 0, AT |-> 0, Ext |-> ""]
    /\ heap = <<>>
    /\ before = <<>>
    /\ httpRequests = NilSlice
    /\ errs = NilSlice
    /\ i = 0
    /\ beresp = <<>>
    /\ w = <<>>
    /\ events = <<>>
    /\ response = <<>>
    /\ bidResponse = <<>>

\* main, lines 37-48: build the bidder; on error return without serving
Main ==
    /\ pc = "main"
    /\ LET r == BuildBidder(config)
       IN  /\ bidder' = r.adapter
           /\ pc' = IF r.err # <<>> THEN "exit" ELSE "serve"
    /\ UNCHANGED <<config, inbound, request, heap, before, httpRequests, errs, i,
                   beresp, w, events, response, bidResponse>>

\* as Receive, going on with the zero BidRequest when the body does not parse
Receive_ParseErrorIgnored ==
    /\ pc = "serve"
    /\ LET r == inbound[1]
       IN  IF r.Path # AuctionPath
           THEN /\ w' = <<StatusOnly(StatusNotFound)>>
                /\ pc' = "done"
                /\ UNCHANGED <<request, heap>>
           ELSE IF ~r.Body.readable
           THEN /\ w' = <<StatusOnly(StatusBadRequest)>>
                /\ pc' = "done"
                /\ UNCHANGED <<request, heap>>
           ELSE IF r.Body.json = <<>>
           THEN pc' = "parsed" /\ UNCHANGED <<request, heap, w>>
           ELSE LET u == UnmarshalBidRequest(r.Body.json[1])
                IN  /\ request' = u.request
                    /\ heap' = u.heap
                    /\ pc' = "parsed"
                    /\ UNCHANGED w
    /\ UNCHANGED <<config, bidder, inbound, before, httpRequests, errs, i, beresp,
                   events, response, bidResponse>>

\* handler, lines 49-70: route, read the body, parse the bid request
Receive ==
    /\ pc = "serve"
    /\ LET r == inbound[1]
       IN  IF r.Path # AuctionPath
           THEN /\ w' = <<StatusOnly(StatusNotFound)>>
                /\ pc' = "done"
                /\ UNCHANGED <<request, heap>>
           ELSE IF ~r.Body.readable \/ r.Body.json = <<>>
           THEN /\ w' = <<StatusOnly(StatusBadRequest)>>
                /\ pc' = "done"
                /\ UNCHANGED <<request, heap>>
           ELSE LET u == UnmarshalBidRequest(r.Body.json[1])
                IN  /\ request' = u.request
                    /\ heap' = u.heap
                    /\ pc' = "parsed"
                    /\ UNCHANGED w
    /\ UNCHANGED <<config, bidder, inbound, before, httpRequests, errs, i, beresp,
                   events, response, bidResponse>>

\* handler, lines 78-87: bidder.MakeRequests(&bidRequest)
InvokeMakeRequests ==
    /\ pc = "parsed"
    /\ LET r == MakeRequests(bidder[1], heap, request)
       IN  /\ httpRequests' = r.requests
           /\ errs' = r.errs
           /\ heap' = r.heap
           /\ IF r.panicked
              THEN pc' = "panicked" /\ UNCHANGED <<w, i>>
              ELSE IF Len(r.errs.elems) > 0
              THEN /\ w' = <<StatusOnly(StatusInternalServerError)>>
                   /\ pc' = "done"
                   /\ UNCHANGED i
              ELSE pc' = "loop" /\ i' = 1 /\ UNCHANGED w
    /\ before' = <<[request |-> request, heap |-> heap]>>
    /\ events' = Append(events, "MakeRequests")
    /\ UNCHANGED <<config, bidder, inbound, request, beresp, response, bidResponse>>

\* handler, lines 101-105: fsthttp.NewRequest fails, continue
NewRequestFails ==
    /\ pc = "loop"
    /\ i <= Len(httpRequests.elems)
    /\ ~ValidURL(httpRequests.elems[i].Uri)
    /\ i' = i + 1
    /\ UNCHANGED <<pc, config, bidder, inbound, request, heap, before, httpRequests,
                   errs, beresp, w, events, response, bidResponse>>

\* as SendFails, sending the same wire request once more after the first failure
SendFails_RetryOnce ==
    /\ pc = "loop"
    /\ i <= Len(httpRequests.elems)
    /\ ValidURL(httpRequests.elems[i].Uri)
    /\ events' = Append(events, "SendFailed")
    /\ i' = IF \E k \in DOMAIN events : events[k] = "SendFailed" THEN i + 1 ELSE i
    /\ UNCHANGED <<pc, config, bidder, inbound, request, heap, before, httpRequests,
                   errs, beresp, w, response, bidResponse>>

\* handler, lines 126-130: bereq.Send fails, continue
SendFails ==
    /\ pc = "loop"
    /\ i <= Len(httpRequests.elems)
    /\ ValidURL(httpRequests.elems[i].Uri)
    /\ events' = Append(events, "SendFailed")
    /\ i' = i + 1
    /\ UNCHANGED <<pc, config, bidder, inbound, request, heap, before, httpRequests,
                   errs, beresp, w, response, bidResponse>>

\* handler, lines 126-131: bereq.Send returns the exchange's response
SendSucceeds ==
    /\ pc = "loop"
    /\ i <= Len(httpRequests.elems)
    /\ ValidURL(httpRequests.elems[i].Uri)
    /\ \E r \in BackendResponses : beresp' = <<r>>
    /\ events' = Append(events, "SendOK")
    /\ pc' = "read"
    /\ UNCHANGED <<config, bidder, inbound, request, heap, before, httpRequests,
                   errs, i, w, response, bidResponse>>

\* as ReadFails, sending the same wire request once more after the first failure
ReadFails_RetryOnce ==
    /\ pc = "read"
    /\ events' = Append(events, "ReadFailed")
    /\ beresp' = <<>>
    /\ i' = IF \E k \in DOMAIN events : events[k] = "ReadFailed" THEN i + 1 ELSE i
    /\ pc' = "loop"
    /\ UNCHANGED <<config, bidder, inbound, request, heap, before, httpRequests,
                   errs, w, response, bidResponse>>

\* handler, lines 134-138: io.ReadAll(beresp.Body) fails, continue
ReadFails ==
    /\ pc = "read"
    /\ events' = Append(events, "ReadFailed")
    /\ beresp' = <<>>
    /\ i' = i + 1
    /\ pc' = "loop"
    /\ UNCHANGED <<config, bidder, inbound, request, heap, before, httpRequests,
                   errs, w, response, bidResponse>>

\* as Relay, answering 200 whatever the exchange answered
Relay_StatusOK ==
    /\ pc = "read"
    /\ w' = <<[status |-> StatusOK,
               contentType |-> "application/json",
               body |-> beresp[1].Body]>>
    /\ pc' = "done"
    /\ UNCHANGED <<config, bidder, inbound, request, heap, before, httpRequests,
                   errs, i, beresp, events, response, bidResponse>>

\* handler, lines 134-160: read the response and send it back to the client
Relay ==
    /\ pc = "read"
    /\ w' = <<[status |-> beresp[1].StatusCode,
               contentType |-> "application/json",
               body |-> beresp[1].Body]>>
    /\ pc' = "done"
    /\ UNCHANGED <<config, bidder, inbound, request, heap, before, httpRequests,
                   errs, i, beresp, events, response, bidResponse>>

\* handler, lines 163-164: no request was successful
NoneSuccessful ==
    /\ pc = "loop"
    /\ i > Len(httpRequests.elems)
    /\ w' = <<StatusOnly(StatusInternalServerError)>>
    /\ pc' = "done"
    /\ UNCHANGED <<config, bidder, inbound, request, heap, before, httpRequests,
                   errs, i, beresp, events, response, bidResponse>>

Next ==
    \/ Main
    \/ Receive
    \/ InvokeMakeRequests
    \/ NewRequestFails
    \/ SendFails
    \/ SendSucceeds
    \/ ReadFails
    \/ Relay
    \/ NoneSuccessful

Spec == Init /\ [][Next]_vars

\* the instance runs to completion: every step of main and of the handler that
\* can be taken eventually is (the send returns or fails)
FairSpec == Spec /\ WF_vars(Next)

---------------------------------------------------------------------------
(* Properties of MakeRequests, checked under SpecRequests *)

NoErrors(es) == Len(es.elems) = 0

\* the wire body of the only produced request, decoded
DecodedBody == UnmarshalBidRequest(httpRequests.elems[1].Body).request

\* C1: for every BidRequest with at least one impression (whose raw extension
\* bytes can be serialized), MakeRequests returns exactly one wire request whose
\* decoded body has exactly one impression with bid floor 0.01, currency USD
\* and a non-empty Banner format list.
C1_OneEnrichedImpression ==
    (pc # "call" /\ Len(request.Imp) >= 1 /\ ValidRaw(request.Ext)) =>
        /\ pc = "returned"
        /\ Len(httpRequests.elems) = 1
        /\ NoErrors(errs)
        /\ Len(DecodedBody.Imp) = 1
        /\ DecodedBody.Imp[1].BidFloor = "0.01"
        /\ DecodedBody.Imp[1].BidFloorCur = "USD"
        /\ DecodedBody.Imp[1].Banner # <<>>
        /\ Len(DecodedBody.Imp[1].Banner[1].Format) >= 1

\* C2: after any call of MakeRequests the caller's BidRequest struct and every
\* Site object the caller could reach before the call are as they were.
C2_CallerRequestUnchanged ==
    pc # "call" =>
        /\ request = before[1].request
        /\ \A a \in DOMAIN before[1].heap : heap[a] = before[1].heap[a]

\* C6: every call of MakeRequests returns either one wire request and no error,
\* or a nil list and at least one error; with zero impressions it returns the
\* no-impressions error and no wire request.
C6_RequestsXorErrors ==
    pc # "call" =>
        /\ pc = "returned"
        /\ \/ Len(httpRequests.elems) = 1 /\ NoErrors(errs)
           \/ httpRequests.isNil /\ Len(errs.elems) >= 1
        /\ Len(request.Imp) = 0 =>
               httpRequests.isNil /\ errs.elems = <<NoImpressionsError>>

---------------------------------------------------------------------------
(* Properties of MakeBids, checked under SpecBids *)

\* C3: MakeBids answers 204 with no result and no error, 400 with the
\* bad-request error carrying the body, 404 with the not-found error carrying
\* the body, any other status but 200 with the unexpected-status error
\* carrying code and body; only 200 and 204 can end without an error, and an
\* error never comes with a bid list.
C3_StatusClassification ==
    pc = "returned" =>
        LET code == response[1].StatusCode
            body == response[1].Body
        IN  /\ code = 204 => bidResponse = <<>> /\ errs = NilSlice
            /\ code = 400 =>
                   /\ bidResponse = <<>>
                   /\ errs.elems = <<Err("Bad request: %s", <<>>, <<body>>)>>
            /\ code = 404 =>
                   /\ bidResponse = <<>>
                   /\ errs.elems = <<Err("404 Not Found: %s", <<>>, <<body>>)>>
            /\ code \notin {200, 204, 400, 404} =>
                   /\ bidResponse = <<>>
                   /\ errs.elems = <<Err("Unexpected status code: %d. Body: %s",
                                         <<code>>, <<body>>)>>
            /\ code \notin {200, 204} => Len(errs.elems) >= 1
            /\ Len(errs.elems) >= 1 => bidResponse = <<>>

C3_Witness ==
    /\ pc = "returned"
    /\ response[1].StatusCode = 404
    /\ response[1].Body # <<>>
    /\ bidResponse = <<>>
    /\ Len(errs.elems) = 1

\* the seats of a decodable body
SeatsOf(body) == OrZero(body[1].seatbid, <<>>)

\* the number of bids of the seats before seat s
RECURSIVE BidsBefore(_, _)
BidsBefore(seats, s) ==
    IF s <= 1 THEN 0 ELSE BidsBefore(seats, s - 1) + Len(seats[s - 1].bid)

\* C7: for a status-200 response whose body decodes, MakeBids returns no error
\* and a non-nil bid list holding, in seat order then bid order, one entry per
\* bid that points at that bid and is tagged "banner"; its length is the sum
\* of the seats' bid counts (zero seats give an empty list).
C7_FlattenedBids ==
    (pc = "returned" /\ response[1].StatusCode = 200 /\ response[1].Body # <<>>) =>
        LET seats == SeatsOf(response[1].Body)
        IN  /\ NoErrors(errs)
            /\ bidResponse # <<>>
            /\ ~bidResponse[1].Bids.isNil
            /\ Len(bidResponse[1].Bids.elems) = BidsBefore(seats, Len(seats) + 1)
            /\ \A n \in 1..Len(bidResponse[1].Bids.elems) :
                   bidResponse[1].Bids.elems[n].BidType = "banner"
            /\ \A s \in 1..Len(seats) : \A k \in 1..Len(seats[s].bid) :
                   bidResponse[1].Bids.elems[BidsBefore(seats, s) + k].Bid = <<s, k>>

C7_Witness ==
    /\ pc = "returned"
    /\ response[1].StatusCode = 200
    /\ response[1].Body # <<>>
    /\ Len(SeatsOf(response[1].Body)) = 2
    /\ \A s \in 1..2 : Len(SeatsOf(response[1].Body)[s].bid) = 2
    /\ Len(bidResponse[1].Bids.elems) = 4

---------------------------------------------------------------------------
(* Properties of the instance (main and the handler), checked under Spec *)

Count(S) == Cardinality({k \in DOMAIN events : events[k] \in S})

Sends == Count({"SendOK", "SendFailed"})

Invocations == Count({"MakeRequests"})

\* the inbound request gets past routing, reading and parsing
ReachesAdapter ==
    /\ inbound[1].Path = AuctionPath
    /\ inbound[1].Body.readable
    /\ inbound[1].Body.json # <<>>

\* the handler ended by passing an exchange response on
Relayed == pc = "done" /\ w[1].contentType = "application/json"

\* the handler ended with its own 500
Failed == pc = "done" /\ w[1] = StatusOnly(StatusInternalServerError)

\* what C4 and its amendment share: one MakeRequests, at most one send, the
\* send only after MakeRequests has returned requests, the relay only after
\* the send has completed
OneRequestThenOneSend ==
    /\ Invocations <= 1
    /\ (pc \in {"loop", "read", "done", "panicked"} /\ ReachesAdapter) =>
           Invocations = 1 /\ events[1] = "MakeRequests"
    /\ Sends <= 1
    /\ Sends >= 1 => events[1] = "MakeRequests" /\ pc # "panicked" /\ NoErrors(errs)
    /\ Relayed => events[Len(events)] = "SendOK"

ConfigEnabled == config # <<>> /\ config[1].enabled = <<TRUE>>

\* C5: with a configuration that is disabled or cannot be decoded, BuildBidder
\* returns no adapter, main returns without registering the handler, and so
\* no request reaches MakeRequests, no wire request is sent, nothing is answered.
C5_FailClosed ==
    (pc # "main" /\ ~ConfigEnabled) =>
        /\ bidder = <<>>
        /\ pc = "exit"
        /\ events = <<>>
        /\ w = <<>>

C5_Witness ==
    /\ pc = "exit"
    /\ config # <<>>
    /\ config[1].enabled = <<FALSE>>
    /\ ReachesAdapter

BodyRejected == ~inbound[1].Body.readable \/ inbound[1].Body.json = <<>>

\* C8 (as claimed): a request that is not POST /openrtb2/auction is answered
\* 404, an auction request whose body cannot be read or parsed is answered
\* 400, and neither reaches MakeRequests or the exchange.
C8_RejectsNonPostRoute ==
    /\ (inbound[1].Method # "POST" \/ inbound[1].Path # AuctionPath) =>
           /\ events = <<>>
           /\ pc = "done" => w[1] = StatusOnly(StatusNotFound)
    /\ (inbound[1].Method = "POST" /\ inbound[1].Path = AuctionPath /\ BodyRejected) =>
           /\ events = <<>>
           /\ pc = "done" => w[1] = StatusOnly(StatusBadRequest)

\* C8 (amended): a request whose path is not /openrtb2/auction is answered
\* 404 whatever its method, a request to that path (by any method) whose body
\* cannot be read or parsed is answered 400, and neither reaches MakeRequests
\* or the exchange.
C8_RejectsOtherPath ==
    /\ inbound[1].Path # AuctionPath =>
           /\ events = <<>>
           /\ pc \notin {"parsed", "loop", "read", "panicked"}
           /\ pc = "done" => w[1] = StatusOnly(StatusNotFound)
    /\ (inbound[1].Path = AuctionPath /\ BodyRejected) =>
           /\ events = <<>>
           /\ pc \notin {"parsed", "loop", "read", "panicked"}
           /\ pc = "done" => w[1] = StatusOnly(StatusBadRequest)

C8_Witness ==
    /\ pc = "done"
    /\ inbound[1].Method = "GET"
    /\ inbound[1].Path = AuctionPath
    /\ inbound[1].Body.readable
    /\ inbound[1].Body.json = <<>>
    /\ w[1].status = 400
    /\ events = <<>>

\* the k-th event is a send whose response was also read
Successful(k) ==
    /\ events[k] = "SendOK"
    /\ k = Len(events) \/ events[k + 1] # "ReadFailed"

Lifecycle ==
    CASE pc \in {"serve", "parsed"} -> "Built"
      [] pc \in {"loop", "read"}    -> "RequestsMade"
      [] pc = "panicked"            -> "Aborted"
      [] pc = "done" /\ Invocations = 0 -> "Rejected"
      [] Failed /\ Invocations = 1  -> "Failed"
      [] Relayed /\ Count({"MakeBids"}) = 0 -> "Relayed"
      [] Relayed /\ Count({"MakeBids"}) = 1 /\ bidResponse = <<>> -> "NoBid"
      [] Relayed /\ Count({"MakeBids"}) = 1 /\ bidResponse # <<>> -> "BidsParsed"
      [] OTHER                      -> "NotServing"

LifecycleStep ==
    \/ Lifecycle' = Lifecycle
    \/ Lifecycle = "NotServing" /\ Lifecycle' \in {"NotServing", "Built"}
    \/ Lifecycle = "Built" /\ Lifecycle' \in {"RequestsMade", "Failed", "Rejected", "Aborted"}
    \/ Lifecycle = "RequestsMade" /\ Lifecycle' \in {"Relayed", "Failed"}

\* an outcome, once reached, is kept
OutcomeKept ==
    pc \in {"done", "panicked", "exit"} => (pc' = pc /\ w' = w /\ events' = events)

==========================================================================
